---- MODULE Spec2Model ----
(***************************************************************************)
(* A model of gvSelect (src/gvSelect/gvSelect.py): the gadgetviewer        *)
(* selection file reader and writer.  A file on disk is a sequence of      *)
(* bytes (0..255); a Python 2 str is a sequence of bytes; an id array is a *)
(* sequence of int32 values.                                               *)
(***************************************************************************)
EXTENDS Integers, Sequences, FiniteSets, TLC

\* ------------------------------------------------------------------------
\* Program constants (gvSelect.py lines 5-11)
NUM_SELECTIONS == 6
NUM_PTYPES == 6
ID_SIZE == 4
NAME_LENGTH == 500

MaxInt32 == 2147483647
MinInt32 == (-2147483647) - 1

\* Bound of the model: the number of calls that put new content into the
\* object (a set_ids or a name assignment that succeeds, the decode of a file
\* the object did not write).  Calls that fail, get_ids, write_file and the
\* decode of the written file are not counted.
MaxOps == 2

\* ------------------------------------------------------------------------
\* struct.pack("i", x) / struct.unpack("i", b): a 4-byte two's complement
\* integer in the byte order of the host (little-endian here; the writer and
\* the reader use the same native order).
\* Variant: the writer packs big-endian (struct.pack(">i")) while the reader
\* stays native.
Pack32BigEndian(x) ==
    << (x \div 16777216) % 256, (x \div 65536) % 256, (x \div 256) % 256, x % 256 >>

Pack32(x) ==
    << x % 256, (x \div 256) % 256, (x \div 65536) % 256, (x \div 16777216) % 256 >>

Unpack32(b) ==
    b[1] + 256 * b[2] + 65536 * b[3]
      + 16777216 * (IF b[4] >= 128 THEN b[4] - 256 ELSE b[4])

\* np.array(ints, dtype=int32).tostring(): the ints packed one after another.
PackInts(ints) ==
    << >> \o [i \in 1..(4 * Len(ints)) |->
                Pack32(ints[((i - 1) \div 4) + 1])[((i - 1) % 4) + 1]]

\* A Python slice s[lo:hi] of a sequence, 0-based and half-open, clipped to
\* the sequence as Python clips it (0 <= lo <= hi).
Slice(s, lo, hi) ==
    LET h == IF hi > Len(s) THEN Len(s) ELSE hi
        l == IF lo > h THEN h ELSE lo
    IN  SubSeq(s, l + 1, h)

\* " " * n
Spaces(n) == << >> \o [i \in 1..n |-> 32]

\* Variant: the name is cut to 500 characters before it is validated.
IsAsciiTruncated(name) ==
    \A i \in 1..(IF Len(name) > NAME_LENGTH THEN NAME_LENGTH ELSE Len(name)) :
        name[i] < 128

\* name.decode('ascii') succeeds: every byte is below 128.
IsAscii(name) == \A i \in 1..Len(name) : name[i] < 128

\* Variant: line 110 (name = name[:500]) left out.
PadNameNoTruncate(name) ==
    name \o Spaces(IF Len(name) > NAME_LENGTH THEN 0 ELSE NAME_LENGTH - Len(name))

\* The value the name setter stores (lines 110-111).
PadName(name) ==
    LET t == Slice(name, 0, NAME_LENGTH)
    IN  t \o Spaces(NAME_LENGTH - Len(t))

\* The empty id slots of a new GVSelection (line 89).
EmptyIds == [p \in 0..(NUM_PTYPES - 1) |-> << >>]

\* GVSelection(name) for an ASCII name (lines 86-89).
NewSelection(name) == [name |-> PadName(name), ids |-> EmptyIds]

\* Python list indexing with n elements: the element an index denotes.
\* Indices -n..-1 count from the end; anything outside -n..n-1 raises
\* IndexError.
IndexOk(i, n) == i >= -n /\ i < n
Resolve(i, n) == IF i < 0 THEN i + n ELSE i

\* ------------------------------------------------------------------------
\* GVSelection.make_output (lines 129-147): the block of int32 values.
AllEmpty(ids) == \A p \in 0..(NUM_PTYPES - 1) : Len(ids[p]) = 0

PtypeGroup(idarray) ==
    IF Len(idarray) = 0
    THEN << 4, 0, 4 >>
    ELSE LET nbytes == ID_SIZE * Len(idarray)
         IN  << ID_SIZE, Len(idarray), ID_SIZE, nbytes >> \o idarray \o << nbytes >>

\* The loop of lines 138-145: ret_array after the first n ptypes.
Groups(ids) ==
    LET acc[n \in 0..NUM_PTYPES] ==
            IF n = 0 THEN << >> ELSE acc[n - 1] \o PtypeGroup(ids[n - 1])
    IN  acc[NUM_PTYPES]

\* s * n
Repeat(s, n) == << >> \o [i \in 1..(n * Len(s)) |-> s[((i - 1) % Len(s)) + 1]]

\* Variant: the all-empty case of lines 133-135 left out.
make_outputAlwaysData(sel) == << 8, 0, NUM_PTYPES, 8 >> \o Groups(sel.ids)

make_output(sel) ==
    IF AllEmpty(sel.ids)
    THEN << 8, 1, NUM_PTYPES, 8 >> \o Repeat(<< ID_SIZE, 0, ID_SIZE >>, NUM_PTYPES)
    ELSE << 8, 0, NUM_PTYPES, 8 >> \o Groups(sel.ids)

\* GVSelectFile.write_file (lines 67-83): the bytes written.
\* The loop of lines 75-76: the names appended to the header.
NameTable(sels) ==
    LET acc[n \in 0..NUM_SELECTIONS] ==
            IF n = 0 THEN << >> ELSE acc[n - 1] \o sels[n - 1].name
    IN  acc[NUM_SELECTIONS]

\* Line 80: body_outs.
BodyOuts(sels) == [i \in 0..(NUM_SELECTIONS - 1) |-> make_output(sels[i])]

\* Line 81: np.concatenate(body_outs).
Concatenate(outs) ==
    LET acc[n \in 0..NUM_SELECTIONS] ==
            IF n = 0 THEN << >> ELSE acc[n - 1] \o outs[n - 1]
    IN  acc[NUM_SELECTIONS]

\* Variant: line 78, the trailing length of the name table, left out.
FileHeaderNoTrailer(sels) ==
    PackInts(<< ID_SIZE, NUM_SELECTIONS, ID_SIZE, NUM_SELECTIONS * NAME_LENGTH >>)
      \o NameTable(sels)

FileHeader(sels) ==
    PackInts(<< ID_SIZE, NUM_SELECTIONS, ID_SIZE, NUM_SELECTIONS * NAME_LENGTH >>)
      \o NameTable(sels)
      \o Pack32(NUM_SELECTIONS * NAME_LENGTH)

FileBytes(sels) == FileHeader(sels) \o PackInts(Concatenate(BodyOuts(sels)))

\* ------------------------------------------------------------------------
\* GVSelection.set_ids / get_ids (lines 114-127) on one selection.  The ids
\* are int32 values already, so np.asarray(ids, dtype=int32) keeps them.
\* Variant: the slots kept by key, as in a dict, so that a new key adds one.
SelSetIdsKeyed(sel, ptype, ids) ==
    [sel EXCEPT !.ids = [p \in (DOMAIN sel.ids) \cup { ptype } |->
                            IF p = ptype THEN ids ELSE sel.ids[p]]]

\* Variant: the ids added to the ones the slot holds.
SelSetIdsAppend(sel, ptype, ids) ==
    [sel EXCEPT !.ids[Resolve(ptype, NUM_PTYPES)] = @ \o ids]

SelSetIds(sel, ptype, ids) ==
    [sel EXCEPT !.ids[Resolve(ptype, NUM_PTYPES)] = ids]

SelGetIds(sel, ptype) == sel.ids[Resolve(ptype, NUM_PTYPES)]

\* ------------------------------------------------------------------------
\* fortranfile.FortranFile, the record reader _parse_file uses (line 32).
\* pos is the 0-based offset of the read cursor.
Failed(e) == [err |-> e, pos |-> 0, data |-> << >>]

\* _read_exactly: n bytes from the cursor, or end of file.
CanRead(file, pos, n) == n >= 0 /\ pos + n <= Len(file)

\* The record whose leading length l was read at pos: the payload and the
\* trailing length, which must repeat l.
RecordOfLength(file, pos, l) ==
    IF ~CanRead(file, pos + 4, l) \/ ~CanRead(file, pos + 4, l + 4)
    THEN Failed("UnexpectedEOF")
    ELSE IF Unpack32(Slice(file, pos + 4 + l, pos + 8 + l)) # l
         THEN Failed("FramingError")
         ELSE [err |-> "ok", pos |-> pos + 8 + l,
               data |-> Slice(file, pos + 4, pos + 4 + l)]

readRecord(file, pos) ==
    IF ~CanRead(file, pos, 4) THEN Failed("UnexpectedEOF")
    ELSE RecordOfLength(file, pos, Unpack32(Slice(file, pos, pos + 4)))

\* The payload of a record as 4-byte integers.
UnpackInts(bytes) ==
    << >> \o [i \in 1..(Len(bytes) \div 4) |->
                Unpack32(SubSeq(bytes, 4 * i - 3, 4 * i))]

\* The record r as an integer array.
IntsOfRecord(r) ==
    IF r.err # "ok" THEN r
    ELSE IF Len(r.data) % 4 # 0 THEN Failed("FramingError")
    ELSE [r EXCEPT !.data = UnpackInts(r.data)]

readInts(file, pos) == IntsOfRecord(readRecord(file, pos))

\* ------------------------------------------------------------------------
\* GVSelectFile._parse_file (lines 26-48).  The result carries, beside the
\* selections, the integer records read for every (selection, ptype), in the
\* order they were read.  A state st of the loops is the exception raised so
\* far (or "ok"), the read cursor, the selection(s) and the records read.
NoSelections(e) == [err |-> e, sels |-> << >>, recs |-> << >>]

\* Variant: one record per ptype, stored as the ids when its first element is
\* nonzero.
ParsePtypeVerbatim(file, st, pid) ==
    LET r == readInts(file, st.pos)
    IN  IF st.err # "ok" THEN st
        ELSE IF r.err # "ok" THEN [st EXCEPT !.err = r.err]
        ELSE IF Len(r.data) = 0 THEN [st EXCEPT !.err = "IndexError"]
        ELSE [err |-> "ok", pos |-> r.pos,
              sel |-> IF r.data[1] # 0 THEN SelSetIds(st.sel, pid, r.data) ELSE st.sel,
              recs |-> Append(st.recs, << r.data >>)]

\* Line 46: selection.set_ids(pid, fin.readInts()), r2 the record read.
StoreIds(st, pid, r, r2) ==
    IF r2.err # "ok" THEN [st EXCEPT !.err = r2.err]
    ELSE [err |-> "ok", pos |-> r2.pos,
          sel |-> SelSetIds(st.sel, pid, r2.data),
          recs |-> Append(st.recs, << r.data, r2.data >>)]

\* Line 45: if fin.readInts()[0] != 0, r the record read.
TestCount(file, st, pid, r) ==
    IF r.err # "ok" THEN [st EXCEPT !.err = r.err]
    ELSE IF Len(r.data) = 0 THEN [st EXCEPT !.err = "IndexError"]
    ELSE IF r.data[1] # 0 THEN StoreIds(st, pid, r, readInts(file, r.pos))
    ELSE [err |-> "ok", pos |-> r.pos, sel |-> st.sel,
          recs |-> Append(st.recs, << r.data >>)]

\* Lines 44-46, one pass of the inner loop for ptype pid; no pass is made
\* once an exception was raised.
ParsePtype(file, st, pid) ==
    IF st.err # "ok" THEN st
    ELSE TestCount(file, st, pid, readInts(file, st.pos))

\* Line 43: fin.readRecord(), h the record read and discarded.
SkipRecord(h, sel) == [err |-> h.err, pos |-> h.pos, sel |-> sel, recs |-> << >>]

\* Lines 43-46 for one selection: its header record, then the inner loop.
ParseSelection(file, pos, sel) ==
    LET st[n \in 0..NUM_PTYPES] ==
            IF n = 0 THEN SkipRecord(readRecord(file, pos), sel)
            ELSE ParsePtype(file, st[n - 1], n - 1)
    IN  st[NUM_PTYPES]

\* The selection parsed, b, put back at index n.
KeepSelection(st, n, b) ==
    [err |-> b.err, pos |-> b.pos,
     sels |-> [st.sels EXCEPT ![n] = b.sel],
     recs |-> Append(st.recs, b.recs)]

\* One pass of the outer loop (line 42), for selection n.
ParseNext(file, st, n) ==
    IF st.err # "ok" THEN st
    ELSE KeepSelection(st, n, ParseSelection(file, st.pos, st.sels[n]))

\* Line 48: return selections, unless an exception was raised.
Returned(st) ==
    IF st.err # "ok" THEN NoSelections(st.err)
    ELSE [err |-> "ok", sels |-> st.sels, recs |-> st.recs]

\* Lines 42-48: the outer loop over the selections.
ParseSelections(file, pos, sels) ==
    LET st[n \in 0..NUM_SELECTIONS] ==
            IF n = 0 THEN [err |-> "ok", pos |-> pos, sels |-> sels, recs |-> << >>]
            ELSE ParseNext(file, st[n - 1], n - 1)
    IN  Returned(st[NUM_SELECTIONS])

\* Lines 36-37: the names cut out of the name table.
NameSlices(all_names) ==
    [i \in 0..(NUM_SELECTIONS - 1) |->
        Slice(all_names, NAME_LENGTH * i, NAME_LENGTH * (i + 1))]

\* Line 40: a GVSelection for every name; the setter rejects a non-ASCII one.
MakeSelections(file, pos, names) ==
    IF \E i \in 0..(NUM_SELECTIONS - 1) : ~IsAscii(names[i])
    THEN NoSelections("ValueError")
    ELSE ParseSelections(file, pos,
             [i \in 0..(NUM_SELECTIONS - 1) |-> NewSelection(names[i])])

\* Lines 35-37: all_names = fin.readRecord(), tab the record read.
ReadNames(file, tab) ==
    IF tab.err # "ok" THEN NoSelections(tab.err)
    ELSE MakeSelections(file, tab.pos, NameSlices(tab.data))

\* Line 34: fin.readRecord(), hdr the record read and discarded.
SkipHeader(file, hdr) ==
    IF hdr.err # "ok" THEN NoSelections(hdr.err)
    ELSE ReadNames(file, readRecord(file, hdr.pos))

parse_file(file) == SkipHeader(file, readRecord(file, 0))

\* GVSelectFile() with no file (lines 22-23): "Selection %02d" % i.
DefaultName(i) ==
    << 83, 101, 108, 101, 99, 116, 105, 111, 110, 32, 48 + (i \div 10), 48 + (i % 10) >>

DefaultSelections ==
    [i \in 0..(NUM_SELECTIONS - 1) |-> NewSelection(DefaultName(i + 1))]

\* ------------------------------------------------------------------------
\* Input files for the decoder that no write_file produced.
Frame(payload) == Pack32(Len(payload)) \o payload \o Pack32(Len(payload))

HeaderRecord == Frame(Pack32(NUM_SELECTIONS))

\* A name table of n bytes, the letters A..Z in turn.
TableOf(n) == << >> \o [i \in 1..n |-> 65 + ((i - 1) % 26)]

EmptyBlock == PackInts(make_output(NewSelection(<< >>)))

SelectionHeader == Frame(PackInts(<< 0, NUM_PTYPES >>))

EmptyPtype == Frame(PackInts(<< 0 >>))

\* Five empty selections after a first one whose ptype records are `first`.
BodyWith(first) == SelectionHeader \o first \o Repeat(EmptyBlock, NUM_SELECTIONS - 1)

FullTable == TableOf(NUM_SELECTIONS * NAME_LENGTH)

\* The foreign files, by number.
CraftedInputs ==
    << \* 1: a name table one byte short
       HeaderRecord \o Frame(TableOf(NUM_SELECTIONS * NAME_LENGTH - 1))
         \o Repeat(EmptyBlock, NUM_SELECTIONS),
       \* 2: counts that are not the number of ids, a count record of two
       \*    integers, and a record whose first integer is 0
       HeaderRecord \o Frame(FullTable)
         \o BodyWith(Frame(PackInts(<< 7 >>)) \o Frame(PackInts(<< 1, 2 >>))
                     \o Frame(PackInts(<< 5, 9 >>)) \o Frame(PackInts(<< 0, 3 >>))
                     \o Frame(PackInts(<< 0, 5 >>))
                     \o Frame(PackInts(<< -1 >>)) \o Frame(PackInts(<< >>))
                     \o EmptyPtype \o EmptyPtype),
       \* 3: an empty count record
       HeaderRecord \o Frame(FullTable)
         \o BodyWith(EmptyPtype \o Frame(<< >>) \o Repeat(EmptyPtype, 4)),
       \* 4: a written file cut one byte short
       SubSeq(FileBytes(DefaultSelections), 1, Len(FileBytes(DefaultSelections)) - 1),
       \* 5: a name table whose trailing length disagrees
       HeaderRecord \o Pack32(NUM_SELECTIONS * NAME_LENGTH) \o FullTable
         \o Pack32(NUM_SELECTIONS * NAME_LENGTH + 1)
         \o Repeat(EmptyBlock, NUM_SELECTIONS),
       \* 6: a name with a non-ASCII byte
       HeaderRecord \o Frame([FullTable EXCEPT ![NAME_LENGTH + 1] = 200])
         \o Repeat(EmptyBlock, NUM_SELECTIONS) >>

\* ------------------------------------------------------------------------
\* Inputs of the calls.
\* set_ids(selection_id, p_type, ids): indices in range, negative indices a
\* Python list accepts, and indices out of range on either side.
SetCalls ==
    { << 0, 2, << 10, 20, 30 >> >>,
      << 0, 2, << >> >>,
      << 0, 0, << 0, 7 >> >>,
      << 5, 5, << MinInt32, -1, MaxInt32 >> >>,
      << -1, -6, << 10, 20, 30 >> >>,
      << 6, 0, << 0, 7 >> >>,
      << 0, -7, << 0, 7 >> >> }

\* get_ids(selection_id, p_type)
GetCalls ==
    { << 0, 2 >>, << -1, -6 >>, << -7, 0 >>, << 0, 6 >> }

\* A name of n letters, a..z in turn.
Letters(n) == << >> \o [i \in 1..n |-> 97 + ((i - 1) % 26)]

\* _selections[s].name = name: short, too long, and with
\* a non-ASCII byte before and after the 500th character.
NameCalls ==
    { << 0, Letters(2) >>,
      << 5, Letters(NAME_LENGTH + 2) >>,
      << 0, << 71, 200, 115 >> >>,
      << 5, Append(Letters(NAME_LENGTH), 233) >> }

IdsOf(sels) ==
    [s \in 0..(NUM_SELECTIONS - 1) |-> [p \in 0..(NUM_PTYPES - 1) |-> sels[s].ids[p]]]

NoReturn == [has |-> FALSE, ids |-> << >>]

Call(op, s, p, arg, src) == [op |-> op, s |-> s, p |-> p, arg |-> arg, src |-> src]

\* ------------------------------------------------------------------------
\* State
VARIABLES
    selections,   \* GVSelectFile._selections of the object in use
    disk,         \* the bytes of the file write_file wrote last (<< >>: none)
    err,          \* the exception the last call raised, or "ok"
    ret,          \* what the last call returned
    recs,         \* history: the integer records the last call read, if a decode
    lastSet,      \* history: per slot, the ids of the most recent set_ids
    lastOp,       \* history: the last call and its arguments
    nops          \* the number of calls that put new content into the object

vars == << selections, disk, err, ret, recs, lastSet, lastOp, nops >>

Init ==
    /\ selections = DefaultSelections
    /\ disk = << >>
    /\ err = "ok"
    /\ ret = NoReturn
    /\ recs = << >>
    /\ lastSet = IdsOf(DefaultSelections)
    /\ lastOp = Call("init", 0, 0, << >>, 0)
    /\ nops = 0

\* GVSelectFile.set_ids(selection_id, p_type, ids) (lines 58-65, 114-120)
SetIds(s, p, ids) ==
    /\ lastOp' = Call("set_ids", s, p, ids, 0)
    /\ ret' = NoReturn
    /\ IF IndexOk(s, NUM_SELECTIONS) /\ IndexOk(p, NUM_PTYPES)
       THEN /\ nops < MaxOps
            /\ selections' =
                 [selections EXCEPT ![Resolve(s, NUM_SELECTIONS)] = SelSetIds(@, p, ids)]
            /\ lastSet' =
                 [lastSet EXCEPT ![Resolve(s, NUM_SELECTIONS)][Resolve(p, NUM_PTYPES)] = ids]
            /\ err' = "ok"
            /\ nops' = nops + 1
       ELSE /\ err' = "IndexError"
            /\ UNCHANGED << selections, lastSet, nops >>
    /\ recs' = << >>
    /\ UNCHANGED disk

\* GVSelectFile.get_ids(selection_id, p_type) (lines 50-56, 122-127)
GetIds(s, p) ==
    /\ lastOp' = Call("get_ids", s, p, << >>, 0)
    /\ IF IndexOk(s, NUM_SELECTIONS) /\ IndexOk(p, NUM_PTYPES)
       THEN /\ ret' = [has |-> TRUE,
                       ids |-> SelGetIds(selections[Resolve(s, NUM_SELECTIONS)], p)]
            /\ err' = "ok"
       ELSE /\ ret' = NoReturn
            /\ err' = "IndexError"
    /\ recs' = << >>
    /\ UNCHANGED << selections, disk, lastSet, nops >>

\* The name setter of selection s (lines 98-111)
SetName(s, name) ==
    /\ lastOp' = Call("set_name", s, 0, name, 0)
    /\ ret' = NoReturn
    /\ IF IsAscii(name)
       THEN /\ nops < MaxOps
            /\ selections' = [selections EXCEPT ![s].name = PadName(name)]
            /\ err' = "ok"
            /\ nops' = nops + 1
       ELSE /\ err' = "ValueError"
            /\ UNCHANGED << selections, nops >>
    /\ recs' = << >>
    /\ UNCHANGED << disk, lastSet >>

\* GVSelectFile.write_file(filename) (lines 67-83)
WriteFile ==
    /\ lastOp' = Call("write_file", 0, 0, << >>, 0)
    /\ ret' = NoReturn
    /\ err' = "ok"
    /\ disk' = FileBytes(selections)
    /\ recs' = << >>
    /\ UNCHANGED << selections, lastSet, nops >>

\* The file a decode reads: the one written last (0), or a foreign one.
InputFile(src) == IF src = 0 THEN disk ELSE CraftedInputs[src]

\* GVSelectFile(fname): the decode of that file.  The decodes of the foreign
\* files do not depend on the state.
CraftedDecoded ==
    << >> \o [k \in 1..Len(CraftedInputs) |-> parse_file(CraftedInputs[k])]

Decode(src) == IF src = 0 THEN parse_file(disk) ELSE CraftedDecoded[src]

\* The outcome r of a decode: on success the object in use is the decoded
\* one; an exception leaves the caller with the object it had.
Install(src, r) ==
    IF r.err = "ok"
    THEN /\ src # 0 => nops < MaxOps
         /\ selections' = r.sels
         /\ recs' = r.recs
         /\ lastSet' = IdsOf(r.sels)
         /\ err' = "ok"
         /\ nops' = IF src = 0 THEN nops ELSE nops + 1
    ELSE /\ err' = r.err
         /\ recs' = << >>
         /\ UNCHANGED << selections, lastSet, nops >>

\* GVSelectFile(fname) (lines 19-20, 26-48)
ParseFile(src) ==
    /\ src = 0 => disk # << >>
    /\ lastOp' = Call("parse", 0, 0, << >>, src)
    /\ ret' = NoReturn
    /\ Install(src, Decode(src))
    /\ UNCHANGED disk

Next ==
    \/ \E c \in SetCalls : SetIds(c[1], c[2], c[3])
    \/ \E c \in GetCalls : GetIds(c[1], c[2])
    \/ \E c \in NameCalls : SetName(c[1], c[2])
    \/ WriteFile
    \/ \E src \in 0..Len(CraftedInputs) : ParseFile(src)

Spec == Init /\ [][Next]_vars

\* ------------------------------------------------------------------------
\* Properties

Sels == 0..5
Ptypes == 0..5

IsSequence(q) == DOMAIN q = 1..Len(q)

HasNonAscii(name) == \E i \in DOMAIN name : name[i] > 127

\* The name a selection must hold after it is given the ASCII name a.
ExpectedName(a) ==
    [i \in 1..500 |-> IF i <= Len(a) THEN a[i] ELSE 32]

\* The second record of a file, when the first two records are well framed.
SecondRecord(file, h) == IF h.err = "ok" THEN readRecord(file, h.pos) ELSE h

TableOfFile(file) == SecondRecord(file, readRecord(file, 0))

\* The part of a name table a selection's name is cut from.
TableSlice(data, s) ==
    [i \in 1..(IF Len(data) >= 500 * (s + 1) THEN 500
               ELSE IF Len(data) > 500 * s THEN Len(data) - 500 * s
               ELSE 0) |-> data[500 * s + i]]

\* The payload block of a selection as the format lays it out.
ExpectedGroup(q) ==
    IF q = << >> THEN << 4, 0, 4 >>
    ELSE << 4, Len(q), 4, 4 * Len(q) >> \o q \o << 4 * Len(q) >>

ExpectedBlock(ids) ==
    << 8, IF \A p \in Ptypes : ids[p] = << >> THEN 1 ELSE 0, 6, 8 >>
      \o ExpectedGroup(ids[0]) \o ExpectedGroup(ids[1]) \o ExpectedGroup(ids[2])
      \o ExpectedGroup(ids[3]) \o ExpectedGroup(ids[4]) \o ExpectedGroup(ids[5])

OnlyPtype2(ids) ==
    /\ ids[2] = << 10, 20, 30 >>
    /\ \A p \in Ptypes \ { 2 } : ids[p] = << >>

\* C1: round trip.  Decoding the file write_file wrote from the object as it
\* is succeeds and yields the same id sequence in every slot and the same
\* 500-character name for every selection.
C1_RoundTrip ==
    [][ (lastOp'.op = "parse" /\ lastOp'.src = 0 /\ disk = FileBytes(selections))
          => /\ err' = "ok"
             /\ \A s \in Sels :
                  /\ selections'[s].name = selections[s].name
                  /\ \A p \in Ptypes : selections'[s].ids[p] = selections[s].ids[p] ]_vars

C1_Witness ==
    /\ lastOp.op = "parse" /\ lastOp.src = 0 /\ err = "ok"
    /\ disk = FileBytes(selections)
    /\ selections[0].ids[0] = << 0, 7 >>
    /\ selections[0].ids[1] = << >>
    /\ selections[5].name = ExpectedName(SubSeq(Letters(502), 1, 500))

\* C2: the file write_file writes begins with the integers 4, 6, 4, 3000,
\* then the six 500-byte names in selection order (3000 bytes), then the
\* integer 3000, and only then the six payload blocks in selection order.
C2_HeaderLayout ==
    lastOp.op = "write_file" =>
        /\ Len(disk) >= 3020
        /\ UnpackInts(SubSeq(disk, 1, 16)) = << 4, 6, 4, 3000 >>
        /\ \A s \in Sels :
             /\ Len(selections[s].name) = 500
             /\ SubSeq(disk, 17 + 500 * s, 16 + 500 * (s + 1)) = selections[s].name
        /\ Unpack32(SubSeq(disk, 3017, 3020)) = 3000
        /\ UnpackInts(SubSeq(disk, 3021, Len(disk))) =
             make_output(selections[0]) \o make_output(selections[1])
               \o make_output(selections[2]) \o make_output(selections[3])
               \o make_output(selections[4]) \o make_output(selections[5])

C2_Witness ==
    /\ lastOp.op = "write_file"
    /\ selections[0].name = ExpectedName(Letters(2))
    /\ selections[5].ids[5] = << MinInt32, -1, MaxInt32 >>

\* C3: the payload block of a selection is [8, f, 6, 8] and one group per
\* ptype in order, f = 1 iff all six id sequences are empty, the group
\* [4, 0, 4] for an empty sequence and [4, n, 4, 4n, ids, 4n] for n ids;
\* the all-empty block and the block of ptype 2 = [10, 20, 30] are the
\* literal ones.  Checked on make_output and on the bytes written.
C3_PayloadBlock ==
    lastOp.op = "write_file" =>
        /\ \A s \in Sels :
             /\ make_output(selections[s]) = ExpectedBlock(selections[s].ids)
             /\ (\A p \in Ptypes : selections[s].ids[p] = << >>)
                  => make_output(selections[s]) =
                       << 8, 1, 6, 8, 4, 0, 4, 4, 0, 4, 4, 0, 4,
                          4, 0, 4, 4, 0, 4, 4, 0, 4 >>
             /\ OnlyPtype2(selections[s].ids)
                  => make_output(selections[s]) =
                       << 8, 0, 6, 8, 4, 0, 4, 4, 0, 4, 4, 3, 4, 12, 10, 20, 30, 12,
                          4, 0, 4, 4, 0, 4, 4, 0, 4 >>
        /\ UnpackInts(SubSeq(disk, 3021, Len(disk))) =
             ExpectedBlock(selections[0].ids) \o ExpectedBlock(selections[1].ids)
               \o ExpectedBlock(selections[2].ids) \o ExpectedBlock(selections[3].ids)
               \o ExpectedBlock(selections[4].ids) \o ExpectedBlock(selections[5].ids)

C3_Witness ==
    /\ lastOp.op = "write_file"
    /\ OnlyPtype2(selections[0].ids)
    /\ selections[5].ids[5] = << MinInt32, -1, MaxInt32 >>
    /\ \A p \in Ptypes : selections[1].ids[p] = << >>

\* C4 as claimed: a successful decode read exactly one integer record for
\* every ptype of every selection, and stored that record as the ids if its
\* first element is nonzero, and nothing otherwise.
C4_OneRecordVerbatim ==
    (lastOp.op = "parse" /\ err = "ok") =>
        \A s \in Sels, p \in Ptypes :
            LET rr == recs[s + 1][p + 1]
            IN  /\ Len(rr) = 1
                /\ IF Len(rr[1]) > 0 /\ rr[1][1] # 0
                   THEN selections[s].ids[p] = rr[1]
                   ELSE selections[s].ids[p] = << >>

\* C4 as the code has it: for every ptype one record is read, which is not
\* empty; if its first element is nonzero exactly one more record is read and
\* that second record is stored as the ids; if it is zero nothing more is
\* read and the ids stay empty.  An empty first record fails the decode.
C4_CountThenIds ==
    /\ (lastOp.op = "parse" /\ err = "ok") =>
          \A s \in Sels, p \in Ptypes :
              LET rr == recs[s + 1][p + 1]
              IN  /\ Len(rr) \in { 1, 2 }
                  /\ Len(rr[1]) > 0
                  /\ rr[1][1] # 0 => (Len(rr) = 2 /\ selections[s].ids[p] = rr[2])
                  /\ rr[1][1] = 0 => (Len(rr) = 1 /\ selections[s].ids[p] = << >>)
    /\ (lastOp.op = "parse" /\ lastOp.src = 3) => err = "IndexError"

C4_Witness ==
    /\ lastOp.op = "parse" /\ lastOp.src = 2 /\ err = "ok"
    /\ recs[1][1] = << << 7 >>, << 1, 2 >> >>
    /\ selections[0].ids[0] = << 1, 2 >>
    /\ selections[0].ids[1] = << 0, 3 >>
    /\ selections[0].ids[2] = << >>

\* C5: a stored name is always 500 characters: the first 500 of the name
\* assigned when that is longer, the name and then spaces otherwise; in the
\* constructor, through the setter and in a decode.
C5_NameWidth ==
    /\ \A s \in Sels : Len(selections[s].name) = 500
    /\ lastOp.op = "init" =>
          \A s \in Sels : selections[s].name = ExpectedName(DefaultName(s + 1))
    /\ (lastOp.op = "set_name" /\ err = "ok") =>
          selections[lastOp.s].name = ExpectedName(lastOp.arg)
    /\ (lastOp.op = "parse" /\ err = "ok") =>
          \A s \in Sels :
              selections[s].name =
                  ExpectedName(TableSlice(TableOfFile(InputFile(lastOp.src)).data, s))

C5_Witness ==
    /\ lastOp.op = "set_name" /\ err = "ok"
    /\ Len(lastOp.arg) > 500
    /\ selections[lastOp.s].name[500] = lastOp.arg[500]

\* C6: assigning a name with a non-ASCII character to a selection fails and
\* leaves its name and its six id sequences (the whole object) as they were.
C6_NonAsciiRejected ==
    [][ (lastOp'.op = "set_name" /\ HasNonAscii(lastOp'.arg))
          => (err' = "ValueError" /\ selections' = selections) ]_vars

C6_Witness ==
    /\ lastOp.op = "set_name" /\ HasNonAscii(lastOp.arg) /\ err = "ValueError"
    /\ selections[lastOp.s].name = ExpectedName(SubSeq(Letters(502), 1, 500))
    /\ selections[lastOp.s].ids[5] = << MinInt32, -1, MaxInt32 >>

\* C7: the object always holds exactly 6 selections, each with exactly 6 id
\* slots, every slot a sequence.
C7_SixBySix ==
    /\ DOMAIN selections = Sels
    /\ \A s \in Sels :
         /\ DOMAIN selections[s].ids = Ptypes
         /\ \A p \in Ptypes : IsSequence(selections[s].ids[p])

C7_Witness ==
    /\ lastOp.op = "set_ids" /\ err = "ok" /\ lastOp.s < 0 /\ lastOp.p < 0
    /\ selections[0].name = ExpectedName(TableOf(500))

\* C8 as claimed: get_ids or set_ids with a selection index or a ptype index
\* outside 0..5 fails with an out-of-range error, returns nothing and leaves
\* the object as it was.
C8_OutOfRangeFails ==
    [][ (lastOp'.op \in { "get_ids", "set_ids" }
           /\ (lastOp'.s \notin Sels \/ lastOp'.p \notin Ptypes))
          => (err' = "IndexError" /\ ~ret'.has /\ selections' = selections) ]_vars

\* C9 as claimed: decoding a file whose name table is well framed but not
\* 3000 bytes long fails.
C9_TableLengthChecked ==
    (lastOp.op = "parse"
       /\ TableOfFile(InputFile(lastOp.src)).err = "ok"
       /\ Len(TableOfFile(InputFile(lastOp.src)).data) # 3000)
      => err # "ok"

\* C10: set_ids(s, c, ids) with s, c in 0..5 puts ids into slot (s, c) and
\* changes no other slot and no name; get_ids and write_file change nothing;
\* get_ids(s, c) returns the ids of the most recent set_ids of that slot, or
\* the empty sequence if there was none since construction.
C10_Frame ==
    [][ /\ (lastOp'.op = "set_ids" /\ lastOp'.s \in Sels /\ lastOp'.p \in Ptypes)
            => /\ err' = "ok"
               /\ selections'[lastOp'.s].ids[lastOp'.p] = lastOp'.arg
               /\ \A s \in Sels :
                    /\ selections'[s].name = selections[s].name
                    /\ \A p \in Ptypes :
                         (s # lastOp'.s \/ p # lastOp'.p)
                           => selections'[s].ids[p] = selections[s].ids[p]
        /\ lastOp'.op \in { "get_ids", "write_file" } => selections' = selections
        /\ (lastOp'.op = "get_ids" /\ lastOp'.s \in Sels /\ lastOp'.p \in Ptypes)
            => /\ err' = "ok" /\ ret'.has
               /\ ret'.ids = lastSet[lastOp'.s][lastOp'.p] ]_vars

C10_Witness ==
    /\ lastOp.op = "get_ids" /\ lastOp.s = 0 /\ lastOp.p = 2
    /\ ret.has /\ ret.ids = << 10, 20, 30 >>
    /\ selections[0].ids[0] = << 0, 7 >>

====
